---- MODULE Spec2Model ----
(***************************************************************************)
(* Model of the core of the Idle Tribal Game (script.js): the game state,  *)
(* its persistence in localStorage, resource accrual from elapsed wall     *)
(* time, and the three single-slot timed jobs (construction, training,     *)
(* raid).  Rendering is left out: it reads the state and changes nothing.  *)
(*                                                                         *)
(* Numbers.  Date.now() is an integer count of milliseconds.  Resource     *)
(* quantities are JS numbers with fractions (0.8 stone per second); they   *)
(* are held here exactly, as integers counting 1/Unit of one resource,     *)
(* where Unit = RateDen * MsPerSecond makes the accrual of one building    *)
(* over one millisecond a whole number.  A training duration               *)
(* 5000 / (1 + 0.5 * B) need not be a whole number of milliseconds: the    *)
(* training job's endTime is held as an exact fraction [num, den].  The    *)
(* rounding of JS doubles is left out of these quantities, where it moves  *)
(* a value by parts in 10^15; it is kept in the roll of a raid's reward,   *)
(* where Math.floor turns it into a different whole number (see            *)
(* floorOfRoll).                                                           *)
(*                                                                         *)
(* null is <<>> and a present value v is <<v>> (the slots queue,           *)
(* trainingQueue, raidQueue and the field targetIndex).                    *)
(***************************************************************************)
EXTENDS Integers, Sequences, FiniteSets, TLC

VARIABLES
    state,          \* the script's `let state` (the object graph, as a record)
    localStorage,   \* the item 'idleTribalState': <<>> when absent, else the JSON text
    now,            \* what Date.now() reads
    last,           \* the handler that ran last and what it did (history)
    started,        \* number of jobs started so far (history)
    shadow          \* SpecCadence: a second run of the same session (see below)

vars == <<state, localStorage, now, last, started, shadow>>

----------------------------------------------------------------------------
(* Bounds of the exploration. *)

Epoch == 1000          \* Date.now() when the session opens
TimeStep == 4500       \* the clock is observed every TimeStep milliseconds
Horizon == 7           \* number of clock steps explored
MaxJobs == 2           \* number of jobs started in one exploration
RandBits == 5          \* grid of Math.random(): the multiples of 2^-RandBits in [0, 1)
MaxUlps == 4           \* and the MaxUlps doubles next below 1
MaxIndex == 1          \* upgradeBuilding is tried for indices 0..MaxIndex

MaxBuildings == 2      \* SpecAccrual: length of the building list
MaxLevel == 2          \* SpecAccrual: highest building level
AccrualSteps == 3      \* SpecAccrual: number of clock steps explored
TrainBuildings == 3    \* SpecTraining: length of the building list
TrainLevel == 3        \* SpecTraining: highest building level
TrainSeconds == 6      \* SpecTraining: number of timer intervals explored
LiveJobs == 1          \* SpecLive: number of jobs started in one exploration
LivePeriod == 10000    \* SpecLive: the clock is observed every LivePeriod milliseconds
LiveSteps == 3         \* SpecLive: number of clock steps explored
CostLevels == 14       \* SpecCost: highest building level
SkewSteps == 3         \* SpecSkew: the clock reads Epoch + k * TimeStep, k in 0..SkewSteps
SkewJobs == 1          \* SpecSkew: number of jobs started in one exploration
LedgerJobs == 2        \* SpecLedger: number of jobs started in one exploration

MaxNow == Epoch + Horizon * TimeStep

----------------------------------------------------------------------------
(* Arithmetic helpers. *)

Null == <<>>

Some(v) == <<v>>

RECURSIVE Pow(_, _)
Pow(b, e) == IF e <= 0 THEN 1 ELSE b * Pow(b, e - 1)

\* the grid draws of Math.random() are the multiples of 1 / RandDen
RandDen == Pow(2, RandBits)

\* Math.ceil of a / b for a >= 0, b > 0
CeilDiv(a, b) == (a + b - 1) \div b

RECURSIVE GCD(_, _)
GCD(a, b) == IF b = 0 THEN a ELSE GCD(b, a % b)

\* the fraction n / d in lowest terms
Rat(n, d) == LET g == GCD(n, d) IN [num |-> n \div g, den |-> d \div g]

RatLeq(a, b) == a.num * b.den <= b.num * a.den

\* Math.max of two fractions
RatMax(a, b) == IF RatLeq(a, b) THEN b ELSE a

\* integer + fraction
RatPlus(i, r) == Rat(i * r.den + r.num, r.den)

\* integer >= fraction
GeqRat(i, r) == i * r.den >= r.num

----------------------------------------------------------------------------
(* Definitions table. *)

MsPerSecond == 1000

\* the base rates (1, 0.8, 0.5, 0) are held as tenths
RateDen == 10

Unit == RateDen * MsPerSecond

Resources == {"wood", "stone", "food"}

BUILDING_TYPES ==
    [ woodcutter |-> [resource |-> "wood", baseRate |-> 10,
                      baseCost |-> [wood |-> 0, stone |-> 20, food |-> 10],
                      baseTime |-> 5],
      quarry     |-> [resource |-> "stone", baseRate |-> 8,
                      baseCost |-> [wood |-> 20, stone |-> 0, food |-> 10],
                      baseTime |-> 5],
      farm       |-> [resource |-> "food", baseRate |-> 5,
                      baseCost |-> [wood |-> 20, stone |-> 10, food |-> 0],
                      baseTime |-> 5],
      barracks   |-> [resource |-> "none", baseRate |-> 0,
                      baseCost |-> [wood |-> 100, stone |-> 50, food |-> 50],
                      baseTime |-> 8] ]

Types == DOMAIN BUILDING_TYPES

\* 1.5 and 1.6 as fractions
COST_MULTIPLIER == [num |-> 3, den |-> 2]

TIME_MULTIPLIER == [num |-> 8, den |-> 5]

TRAIN_COST == [wood |-> 15, stone |-> 15, food |-> 10]

BASE_TRAIN_TIME == 5000

MIN_TRAIN_TIME == 1000

RAID_COST_TROOPS == 5

RAID_TIME == 30000

RAID_REWARD_RANGES == [wood |-> <<20, 40>>, stone |-> <<20, 40>>, food |-> <<10, 30>>]

DEFAULT_STATE(t) ==
    [ resources     |-> [wood |-> 50 * Unit, stone |-> 50 * Unit, food |-> 50 * Unit],
      buildings     |-> <<>>,
      queue         |-> Null,
      troops        |-> 0,
      trainingQueue |-> Null,
      raidQueue     |-> Null,
      lastUpdate    |-> t ]

----------------------------------------------------------------------------
(* Persistence.  A handler works on w = [st, ls, writes, err]: the state   *)
(* object, the stored item, the number of setItem calls made so far by the *)
(* handler, and whether the handler ended by throwing.                     *)

KeyOrder == <<"resources", "buildings", "queue", "troops", "trainingQueue",
              "raidQueue", "lastUpdate">>

\* JSON.stringify(state): the text, as the list of the object's <<key, value>> members
stringify(s) ==
    LET keys == SelectSeq(KeyOrder, LAMBDA k : k \in DOMAIN s)
    IN  [i \in 1..Len(keys) |-> <<keys[i], s[keys[i]]>>]

\* A JSON text is the sequence of its tokens: a member "key": value of an
\* object is the token <<key, value>>, any other piece of text is <<piece>>.
\* The empty sequence is the empty string, which getItem's null is equal to
\* for `if (data)`.
NullText == << <<"null">> >>

BrokenText == << <<"{">> >>

IsObjectText(data) == \A i \in DOMAIN data : Len(data[i]) = 2

\* JSON.parse(data) throws a SyntaxError
parseThrows(data) == ~IsObjectText(data) /\ data # NullText

\* JSON.parse(data): null for the text null, else the object with the members
\* of the text
parse(data) ==
    IF data = NullText THEN Null
    ELSE [k \in {data[i][1] : i \in DOMAIN data} |->
            data[CHOOSE i \in DOMAIN data : data[i][1] = k][2]]

Begin(st, ls) == [st |-> st, ls |-> ls, writes |-> 0, err |-> FALSE]

saveState(w) == [w EXCEPT !.ls = stringify(w.st), !.writes = @ + 1]

SetField(s, k, v) == (k :> v) @@ s

\* state.lastUpdate of a state that is null throws a TypeError
loadState(w, t) ==
    LET data == w.ls
        s0 == IF data # <<>>
              THEN IF parseThrows(data) THEN DEFAULT_STATE(t) ELSE parse(data)
              ELSE DEFAULT_STATE(t)
        s1 == IF "lastUpdate" \notin DOMAIN s0 \/ s0.lastUpdate = 0
              THEN SetField(s0, "lastUpdate", t) ELSE s0
        s2 == IF "troops" \notin DOMAIN s1 THEN SetField(s1, "troops", 0) ELSE s1
        s3 == IF "trainingQueue" \notin DOMAIN s2
              THEN SetField(s2, "trainingQueue", Null) ELSE s2
        s4 == IF "raidQueue" \notin DOMAIN s3 THEN SetField(s3, "raidQueue", Null) ELSE s3
    IN  IF s0 = Null THEN [w EXCEPT !.st = s0, !.err = TRUE]
        ELSE [w EXCEPT !.st = s4]

----------------------------------------------------------------------------
(* Economy calculator. *)

\* calculateCost with Math.pow(COST_MULTIPLIER, level)
calculateCostFromLevel(type, level) ==
    LET def == BUILDING_TYPES[type]
    IN  [res \in Resources |->
            CeilDiv(def.baseCost[res] * Pow(COST_MULTIPLIER.num, level),
                    Pow(COST_MULTIPLIER.den, level))]

calculateCost(type, level) ==
    LET def == BUILDING_TYPES[type]
    IN  [res \in Resources |->
            CeilDiv(def.baseCost[res] * Pow(COST_MULTIPLIER.num, level - 1),
                    Pow(COST_MULTIPLIER.den, level - 1))]

calculateTime(type, level) ==
    LET def == BUILDING_TYPES[type]
    IN  CeilDiv(def.baseTime * Pow(TIME_MULTIPLIER.num, level - 1) * MsPerSecond,
                Pow(TIME_MULTIPLIER.den, level - 1))

\* hasResources with `some` written for `every`
hasResourcesSome(s, cost) == \E res \in DOMAIN cost : s.resources[res] >= cost[res] * Unit

hasResources(s, cost) == \A res \in DOMAIN cost : s.resources[res] >= cost[res] * Unit

deductResources(s, cost) ==
    [s EXCEPT !.resources = [res \in DOMAIN @ |->
        IF res \in DOMAIN cost THEN @[res] - cost[res] * Unit ELSE @[res]]]

----------------------------------------------------------------------------
(* Resource accrual. *)

\* the forEach of updateResources over buildings[i..], deltaMs = now - lastUpdate
RECURSIVE accrue(_, _, _, _)
accrue(buildings, i, resources, deltaMs) ==
    IF i > Len(buildings) THEN resources
    ELSE LET building == buildings[i]
             def == BUILDING_TYPES[building.type]
         IN  IF def.resource = "none" \/ def.baseRate <= 0
             THEN accrue(buildings, i + 1, resources, deltaMs)
             ELSE LET \* baseRate * level * deltaSeconds, in 1/Unit
                      amount == def.baseRate * building.level * deltaMs
                                    * (Unit \div (RateDen * MsPerSecond))
                  IN  accrue(buildings, i + 1,
                             [resources EXCEPT ![def.resource] = @ + amount], deltaMs)

\* updateResources without `state.lastUpdate = now`
updateResourcesKeepsClock(w, t) ==
    LET s == w.st
        deltaMs == t - s.lastUpdate
    IN  IF deltaMs <= 0 THEN w
        ELSE saveState([w EXCEPT !.st =
                [s EXCEPT !.resources = accrue(s.buildings, 1, s.resources, deltaMs)]])

\* updateResources without `if (deltaSeconds <= 0) return`
updateResourcesNoGuard(w, t) ==
    LET s == w.st
        deltaMs == t - s.lastUpdate
    IN  saveState([w EXCEPT !.st =
            [s EXCEPT !.resources = accrue(s.buildings, 1, s.resources, deltaMs),
                      !.lastUpdate = t]])

updateResources(w, t) ==
    LET s == w.st
        deltaMs == t - s.lastUpdate
    IN  IF deltaMs <= 0 THEN w
        ELSE saveState([w EXCEPT !.st =
                [s EXCEPT !.resources = accrue(s.buildings, 1, s.resources, deltaMs),
                          !.lastUpdate = t]])

----------------------------------------------------------------------------
(* Construction queue. *)

\* checkQueue that forgets to clear the slot
checkQueueKeepsJob(w, t) ==
    LET s == w.st
    IN  IF s.queue = Null THEN w
        ELSE LET job == s.queue[1]
             IN  IF t >= job.endTime
                 THEN saveState([w EXCEPT !.st =
                        [s EXCEPT
                           !.buildings =
                              IF job.targetIndex = Null
                              THEN Append(@, [type |-> job.type, level |-> job.level])
                              ELSE [@ EXCEPT ![job.targetIndex[1] + 1].level = job.level]]])
                 ELSE w

\* checkQueue that assigns a list of the new building alone
checkQueueReplacesList(w, t) ==
    LET s == w.st
    IN  IF s.queue = Null THEN w
        ELSE LET job == s.queue[1]
             IN  IF t >= job.endTime
                 THEN saveState([w EXCEPT !.st =
                        [s EXCEPT
                           !.buildings =
                              IF job.targetIndex = Null
                              THEN <<[type |-> job.type, level |-> job.level]>>
                              ELSE [@ EXCEPT ![job.targetIndex[1] + 1].level = job.level],
                           !.queue = Null]])
                 ELSE w

\* checkQueue with unshift for push
checkQueuePrepends(w, t) ==
    LET s == w.st
    IN  IF s.queue = Null THEN w
        ELSE LET job == s.queue[1]
             IN  IF t >= job.endTime
                 THEN saveState([w EXCEPT !.st =
                        [s EXCEPT
                           !.buildings =
                              IF job.targetIndex = Null
                              THEN <<[type |-> job.type, level |-> job.level]>> \o @
                              ELSE [@ EXCEPT ![job.targetIndex[1] + 1].level = job.level],
                           !.queue = Null]])
                 ELSE w

checkQueue(w, t) ==
    LET s == w.st
    IN  IF s.queue = Null THEN w
        ELSE LET job == s.queue[1]
             IN  IF t >= job.endTime
                 THEN saveState([w EXCEPT !.st =
                        [s EXCEPT
                           !.buildings =
                              IF job.targetIndex = Null
                              THEN Append(@, [type |-> job.type, level |-> job.level])
                              ELSE [@ EXCEPT ![job.targetIndex[1] + 1].level = job.level],
                           !.queue = Null]])
                 ELSE w

\* buildNew without the test of the slot
buildNewOverwrites(w, type, t) ==
    LET s == w.st
        cost == calculateCost(type, 1)
    IN  IF ~hasResources(s, cost) THEN w
        ELSE LET s1 == deductResources(s, cost)
                 duration == calculateTime(type, 1)
             IN  saveState([w EXCEPT !.st =
                    [s1 EXCEPT !.queue = Some([type |-> type, targetIndex |-> Null,
                                               level |-> 1, startTime |-> t,
                                               endTime |-> t + duration])]])

buildNew(w, type, t) ==
    LET s == w.st
        cost == calculateCost(type, 1)
    IN  IF s.queue # Null THEN w
        ELSE IF ~hasResources(s, cost) THEN w
        ELSE LET s1 == deductResources(s, cost)
                 duration == calculateTime(type, 1)
             IN  saveState([w EXCEPT !.st =
                    [s1 EXCEPT !.queue = Some([type |-> type, targetIndex |-> Null,
                                               level |-> 1, startTime |-> t,
                                               endTime |-> t + duration])]])

\* upgradeBuilding that saves after the deduction and not after the enqueue
upgradeBuildingSavesEarly(w, index, t) ==
    LET s == w.st
    IN  IF s.queue # Null THEN w
        ELSE IF index + 1 \notin DOMAIN s.buildings THEN [w EXCEPT !.err = TRUE]
        ELSE LET building == s.buildings[index + 1]
                 nextLevel == building.level + 1
                 cost == calculateCost(building.type, nextLevel)
             IN  IF ~hasResources(s, cost) THEN w
                 ELSE LET w1 == saveState([w EXCEPT !.st = deductResources(s, cost)])
                          duration == calculateTime(building.type, nextLevel)
                      IN  [w1 EXCEPT !.st.queue =
                                Some([type |-> building.type, targetIndex |-> Some(index),
                                      level |-> nextLevel, startTime |-> t,
                                      endTime |-> t + duration])]

\* upgradeBuilding that records the building's level, not nextLevel, in the job
upgradeBuildingRecordsLevel(w, index, t) ==
    LET s == w.st
    IN  IF s.queue # Null THEN w
        ELSE IF index + 1 \notin DOMAIN s.buildings THEN [w EXCEPT !.err = TRUE]
        ELSE LET building == s.buildings[index + 1]
                 nextLevel == building.level + 1
                 cost == calculateCost(building.type, nextLevel)
             IN  IF ~hasResources(s, cost) THEN w
                 ELSE LET s1 == deductResources(s, cost)
                          duration == calculateTime(building.type, nextLevel)
                      IN  saveState([w EXCEPT !.st =
                             [s1 EXCEPT !.queue =
                                Some([type |-> building.type, targetIndex |-> Some(index),
                                      level |-> building.level, startTime |-> t,
                                      endTime |-> t + duration])]])

\* index is the JS index (from 0); buildings[index] of an index without a
\* building is undefined, and reading .level of it throws a TypeError
upgradeBuilding(w, index, t) ==
    LET s == w.st
    IN  IF s.queue # Null THEN w
        ELSE IF index + 1 \notin DOMAIN s.buildings THEN [w EXCEPT !.err = TRUE]
        ELSE LET building == s.buildings[index + 1]
                 nextLevel == building.level + 1
                 cost == calculateCost(building.type, nextLevel)
             IN  IF ~hasResources(s, cost) THEN w
                 ELSE LET s1 == deductResources(s, cost)
                          duration == calculateTime(building.type, nextLevel)
                      IN  saveState([w EXCEPT !.st =
                             [s1 EXCEPT !.queue =
                                Some([type |-> building.type, targetIndex |-> Some(index),
                                      level |-> nextLevel, startTime |-> t,
                                      endTime |-> t + duration])]])

----------------------------------------------------------------------------
(* Troop training. *)

RECURSIVE SumBarracks(_, _)
SumBarracks(buildings, i) ==
    IF i > Len(buildings) THEN 0
    ELSE (IF buildings[i].type = "barracks" THEN buildings[i].level ELSE 0)
         + SumBarracks(buildings, i + 1)

getTotalBarracksLevel(s) == SumBarracks(s.buildings, 1)

\* calculateTrainingDuration without Math.max
calculateTrainingDurationNoFloor(s) ==
    LET total == getTotalBarracksLevel(s)
    IN  Rat(2 * BASE_TRAIN_TIME, 2 + total)

\* max(1000, 5000 / (1 + 0.5 * total)), with 1 + 0.5 * total = (2 + total) / 2
calculateTrainingDuration(s) ==
    LET total == getTotalBarracksLevel(s)
    IN  RatMax(Rat(MIN_TRAIN_TIME, 1), Rat(2 * BASE_TRAIN_TIME, 2 + total))

\* trainTroop that tests the cost of the wrong kind only (wood)
trainTroopChecksWood(w, t) ==
    LET s == w.st
    IN  IF s.trainingQueue # Null THEN w
        ELSE IF s.resources.wood < TRAIN_COST.wood * Unit THEN w
        ELSE LET s1 == deductResources(s, TRAIN_COST)
                 duration == calculateTrainingDuration(s1)
             IN  saveState([w EXCEPT !.st =
                    [s1 EXCEPT !.trainingQueue =
                        Some([startTime |-> t, endTime |-> RatPlus(t, duration)])]])

\* trainTroop that also waits for the raid slot
trainTroopWaitsForRaid(w, t) ==
    LET s == w.st
    IN  IF s.trainingQueue # Null \/ s.raidQueue # Null THEN w
        ELSE IF ~hasResources(s, TRAIN_COST) THEN w
        ELSE LET s1 == deductResources(s, TRAIN_COST)
                 duration == calculateTrainingDuration(s1)
             IN  saveState([w EXCEPT !.st =
                    [s1 EXCEPT !.trainingQueue =
                        Some([startTime |-> t, endTime |-> RatPlus(t, duration)])]])

trainTroop(w, t) ==
    LET s == w.st
    IN  IF s.trainingQueue # Null THEN w
        ELSE IF ~hasResources(s, TRAIN_COST) THEN w
        ELSE LET s1 == deductResources(s, TRAIN_COST)
                 duration == calculateTrainingDuration(s1)
             IN  saveState([w EXCEPT !.st =
                    [s1 EXCEPT !.trainingQueue =
                        Some([startTime |-> t, endTime |-> RatPlus(t, duration)])]])

\* checkTrainingQueue without `state.trainingQueue = null`
checkTrainingQueueKeepsJob(w, t) ==
    LET s == w.st
    IN  IF s.trainingQueue = Null THEN w
        ELSE IF GeqRat(t, s.trainingQueue[1].endTime)
             THEN saveState([w EXCEPT !.st = [s EXCEPT !.troops = @ + 1]])
             ELSE w

\* checkTrainingQueue that compares with startTime
checkTrainingQueueEarly(w, t) ==
    LET s == w.st
    IN  IF s.trainingQueue = Null THEN w
        ELSE IF t >= s.trainingQueue[1].startTime
             THEN saveState([w EXCEPT !.st =
                    [s EXCEPT !.troops = @ + 1, !.trainingQueue = Null]])
             ELSE w

\* checkTrainingQueue that compares seconds with the milliseconds of endTime
checkTrainingQueueSeconds(w, t) ==
    LET s == w.st
    IN  IF s.trainingQueue = Null THEN w
        ELSE IF GeqRat(t \div MsPerSecond, s.trainingQueue[1].endTime)
             THEN saveState([w EXCEPT !.st =
                    [s EXCEPT !.troops = @ + 1, !.trainingQueue = Null]])
             ELSE w

checkTrainingQueue(w, t) ==
    LET s == w.st
    IN  IF s.trainingQueue = Null THEN w
        ELSE IF GeqRat(t, s.trainingQueue[1].endTime)
             THEN saveState([w EXCEPT !.st =
                    [s EXCEPT !.troops = @ + 1, !.trainingQueue = Null]])
             ELSE w

----------------------------------------------------------------------------
(* Raids. *)

\* Math.random() returns a double in [0, 1).  A draw [num, ulps] is the double
\* num / RandDen - ulps * 2^-53: a multiple of 1 / RandDen (ulps = 0), or one of
\* the doubles next below 1, which lie 2^-53 apart (num = RandDen, ulps > 0).
Grid(n) == [num |-> n, ulps |-> 0]

Top(u) == [num |-> RandDen, ulps |-> u]

\* the distance, in units of 2^-53, between two doubles next below the whole
\* number whole, 1 <= whole < 2^30: the least power of two >= whole
RECURSIVE UlpBelow(_)
UlpBelow(whole) == IF whole <= 1 THEN 1 ELSE 2 * UlpBelow((whole + 1) \div 2)

\* The double a JS operation returns for the exact result whole - e * 2^-53
\* (whole not a power of two, e small): round to nearest, ties to the even
\* significand.  The result is whole - RoundBelow(whole, e) * 2^-53.
RoundBelow(whole, e) ==
    LET ulp == UlpBelow(whole)
        q == e \div ulp
        rem == e % ulp
    IN  IF 2 * rem < ulp THEN q * ulp
        ELSE IF 2 * rem > ulp THEN (q + 1) * ulp
        ELSE IF q % 2 = 0 THEN q * ulp ELSE (q + 1) * ulp

\* Math.floor(min + r * span) for the draw r.  For a grid draw r * span and
\* min + r * span have few bits and are exact.  For a draw next below 1 the
\* product and the sum are each rounded, and stay within 1 of min + span.
floorOfRoll(min, span, r) ==
    IF r.ulps = 0 THEN min + (r.num * span) \div RandDen
    ELSE LET product == RoundBelow(span, span * r.ulps)
             sum == RoundBelow(min + span, product)
         IN  IF sum = 0 THEN min + span ELSE min + span - 1

\* rnd[res] is the draw Math.random() returned for res
rollReward(rnd) ==
    [res \in DOMAIN RAID_REWARD_RANGES |->
        LET min == RAID_REWARD_RANGES[res][1]
            max == RAID_REWARD_RANGES[res][2]
        IN  floorOfRoll(min, max - min + 1, rnd[res])]

\* raid that refuses only when there is no troop at all
raidAnyTroops(w, rnd, t) ==
    LET s == w.st
    IN  IF s.raidQueue # Null THEN w
        ELSE IF s.troops < 1 THEN w
        ELSE saveState([w EXCEPT !.st =
                [s EXCEPT !.troops = @ - RAID_COST_TROOPS,
                          !.raidQueue = Some([startTime |-> t,
                                              endTime |-> t + RAID_TIME,
                                              reward |-> rollReward(rnd)])]])

raid(w, rnd, t) ==
    LET s == w.st
    IN  IF s.raidQueue # Null THEN w
        ELSE IF s.troops < RAID_COST_TROOPS THEN w
        ELSE saveState([w EXCEPT !.st =
                [s EXCEPT !.troops = @ - RAID_COST_TROOPS,
                          !.raidQueue = Some([startTime |-> t,
                                              endTime |-> t + RAID_TIME,
                                              reward |-> rollReward(rnd)])]])

\* checkRaidQueue that forgets saveState
checkRaidQueueNoSave(w, t) ==
    LET s == w.st
    IN  IF s.raidQueue = Null THEN w
        ELSE LET job == s.raidQueue[1]
             IN  IF t >= job.endTime
                 THEN [w EXCEPT !.st =
                        [s EXCEPT !.resources = [res \in DOMAIN @ |->
                                      IF res \in DOMAIN job.reward
                                      THEN @[res] + job.reward[res] * Unit ELSE @[res]],
                                  !.raidQueue = Null]]
                 ELSE w

\* checkRaidQueue that pays the lowest reward of each range, not the stored one
checkRaidQueueRerolls(w, t) ==
    LET s == w.st
    IN  IF s.raidQueue = Null THEN w
        ELSE LET job == s.raidQueue[1]
                 reward == rollReward([res \in Resources |-> Grid(0)])
             IN  IF t >= job.endTime
                 THEN saveState([w EXCEPT !.st =
                        [s EXCEPT !.resources = [res \in DOMAIN @ |->
                                      @[res] + reward[res] * Unit],
                                  !.raidQueue = Null]])
                 ELSE w

checkRaidQueue(w, t) ==
    LET s == w.st
    IN  IF s.raidQueue = Null THEN w
        ELSE LET job == s.raidQueue[1]
             IN  IF t >= job.endTime
                 THEN saveState([w EXCEPT !.st =
                        [s EXCEPT !.resources = [res \in DOMAIN @ |->
                                      IF res \in DOMAIN job.reward
                                      THEN @[res] + job.reward[res] * Unit ELSE @[res]],
                                  !.raidQueue = Null]])
                 ELSE w

----------------------------------------------------------------------------
(* Main loop and start-up. *)

\* setInterval(tick, 1000)
TickInterval == 1000

\* tick with checkQueue before updateResources
tickChecksFirst(w, t) ==
    checkRaidQueue(checkTrainingQueue(updateResources(checkQueue(w, t), t), t), t)

tick(w, t) == checkRaidQueue(checkTrainingQueue(checkQueue(updateResources(w, t), t), t), t)

\* the DOMContentLoaded handler: loadState, then the offline accrual
domContentLoaded(w, t) ==
    LET w1 == loadState(w, t)
    IN  IF w1.err THEN w1 ELSE updateResources(w1, t)

----------------------------------------------------------------------------
(* The session.  Each action is one handler run to completion (the script  *)
(* is single-threaded), or the clock moving on while no handler runs.      *)

\* A game saved by an earlier session, 95 s of play after its start: the three
\* producers built at 0 s, 5 s, 10 s, five troops trained from 40 s on, one
\* every 10 s, the tab closed at 95 s when the clock read t.
SavedGame(t) ==
    [ resources     |-> [wood |-> 25 * Unit, stone |-> 13 * Unit, food |-> 20 * Unit],
      buildings     |-> << [type |-> "woodcutter", level |-> 1],
                           [type |-> "quarry", level |-> 1],
                           [type |-> "farm", level |-> 1] >>,
      queue         |-> Null,
      troops        |-> 5,
      trainingQueue |-> Null,
      raidQueue     |-> Null,
      lastUpdate    |-> t ]

\* what localStorage may hold when the page is opened
InitialStorage == { <<>>, stringify(SavedGame(Epoch)) }

\* the values the Math.random() calls of one raid return; the exploration of
\* the session takes the three draws of one raid equal, and the lowest or the
\* highest value of the grid
RandomDraws == {[res \in Resources |-> Grid(k)] : k \in {0, RandDen - 1}}

NoShadow == <<>>

Commands == {"buildNew", "upgradeBuilding", "trainTroop", "raid"}

Slots == {"queue", "trainingQueue", "raidQueue"}

\* the slots whose job the handler completed
Done(s0, s1) == {k \in Slots : s0[k] # Null /\ s1[k] = Null}

Idle(op) == [op |-> op, changed |-> FALSE, writes |-> 0, err |-> FALSE, done |-> {}]

Ran(op, w0, w1) ==
    /\ state' = w1.st
    /\ localStorage' = w1.ls
    /\ last' = [op |-> op, changed |-> (w1.st # w0.st), writes |-> w1.writes,
                err |-> w1.err, done |-> Done(w0.st, w1.st)]
    /\ started' = IF op \in Commands /\ w1.st # w0.st THEN started + 1 ELSE started

\* the handler's view when it starts
W == Begin(state, localStorage)

Init ==
    /\ now = Epoch
    /\ \E ls \in InitialStorage :
          LET w == domContentLoaded(Begin(Null, ls), Epoch)
          IN  /\ state = w.st
              /\ localStorage = w.ls
              /\ last = [Idle("load") EXCEPT !.changed = TRUE, !.writes = w.writes]
    /\ started = 0
    /\ shadow = NoShadow

\* time passes; no handler runs
Advance ==
    /\ now + TimeStep <= MaxNow
    /\ now' = now + TimeStep
    /\ last' = Idle("wait")
    /\ UNCHANGED <<state, localStorage, started, shadow>>

\* the interval timer fires
Tick ==
    /\ Ran("tick", W, tick(W, now))
    /\ UNCHANGED <<now, shadow>>

BuildNew ==
    /\ started < MaxJobs
    /\ \E type \in Types :
          Ran("buildNew", W,
              buildNew(W, type, now))
    /\ UNCHANGED <<now, shadow>>

UpgradeBuilding ==
    /\ started < MaxJobs
    /\ \E index \in 0..MaxIndex :
          Ran("upgradeBuilding", W,
              upgradeBuilding(W, index, now))
    /\ UNCHANGED <<now, shadow>>

TrainTroop ==
    /\ started < MaxJobs
    /\ Ran("trainTroop", W,
           trainTroop(W, now))
    /\ UNCHANGED <<now, shadow>>

Raid ==
    /\ started < MaxJobs
    /\ \E rnd \in RandomDraws :
          Ran("raid", W,
              raid(W, rnd, now))
    /\ UNCHANGED <<now, shadow>>

\* the page is closed and opened again: the state object is lost and rebuilt
\* from localStorage by the DOMContentLoaded handler
Reload ==
    /\ Ran("load", W,
           domContentLoaded(Begin(Null, localStorage), now))
    /\ UNCHANGED <<now, shadow>>

Next ==
    \/ Advance
    \/ Tick
    \/ BuildNew
    \/ UpgradeBuilding
    \/ TrainTroop
    \/ Raid
    \/ Reload

Spec == Init /\ [][Next]_vars

----------------------------------------------------------------------------
(* Two runs of one session, for the effect of the tick cadence.  Run A is  *)
(* state and localStorage; run B is shadow.st and shadow.ls.  Both start   *)
(* from the same stored record, read the same clock and get the same       *)
(* commands at the same times; each has its own timer, which may or may    *)
(* not fire at a given clock value.  At one clock value the timers fire    *)
(* before the commands.  shadow.tickedA (tickedB) says that run A (B) has  *)
(* ticked at the current clock value.                                      *)

WB == Begin(shadow.st, shadow.ls)

InitCadence ==
    /\ now = Epoch
    /\ \E ls \in InitialStorage :
          LET w == domContentLoaded(Begin(Null, ls), Epoch)
          IN  /\ state = w.st
              /\ localStorage = w.ls
              /\ last = [Idle("load") EXCEPT !.changed = TRUE, !.writes = w.writes]
              /\ shadow = [st |-> w.st, ls |-> w.ls, tickedA |-> FALSE,
                           tickedB |-> FALSE, commanded |-> FALSE]
    /\ started = 0

AdvanceBoth ==
    /\ now + TimeStep <= MaxNow
    /\ now' = now + TimeStep
    /\ last' = Idle("wait")
    /\ shadow' = [shadow EXCEPT !.tickedA = FALSE, !.tickedB = FALSE,
                                !.commanded = FALSE]
    /\ UNCHANGED <<state, localStorage, started>>

TickA ==
    /\ ~shadow.commanded
    /\ ~shadow.tickedA
    /\ Ran("tick", W, tick(W, now))
    /\ shadow' = [shadow EXCEPT !.tickedA = TRUE]
    /\ UNCHANGED now

TickB ==
    /\ ~shadow.commanded
    /\ ~shadow.tickedB
    /\ LET w == tick(WB, now)
       IN  shadow' = [shadow EXCEPT !.st = w.st, !.ls = w.ls, !.tickedB = TRUE]
    /\ last' = Idle("tickB")
    /\ UNCHANGED <<state, localStorage, now, started>>

\* one command, given to both runs: wa and wb are what it makes of A and of B
Both(op, wa, wb) ==
    /\ started < MaxJobs
    /\ state' = wa.st
    /\ localStorage' = wa.ls
    /\ shadow' = [shadow EXCEPT !.st = wb.st, !.ls = wb.ls, !.commanded = TRUE]
    /\ last' = [op |-> op, changed |-> (wa.st # state), writes |-> wa.writes,
                err |-> wa.err, done |-> {}]
    /\ started' = IF wa.st # state \/ wb.st # shadow.st THEN started + 1 ELSE started
    /\ UNCHANGED now

BuildNewBoth ==
    \E type \in Types : Both("buildNew", buildNew(W, type, now), buildNew(WB, type, now))

UpgradeBuildingBoth ==
    \E index \in 0..MaxIndex :
        Both("upgradeBuilding", upgradeBuilding(W, index, now),
             upgradeBuilding(WB, index, now))

TrainTroopBoth == Both("trainTroop", trainTroop(W, now), trainTroop(WB, now))

RaidBoth ==
    \E rnd \in RandomDraws : Both("raid", raid(W, rnd, now), raid(WB, rnd, now))

NextCadence ==
    \/ AdvanceBoth
    \/ TickA
    \/ TickB
    \/ BuildNewBoth
    \/ UpgradeBuildingBoth
    \/ TrainTroopBoth
    \/ RaidBoth

SpecCadence == InitCadence /\ [][NextCadence]_vars

----------------------------------------------------------------------------
(* Opening the page over whatever the item holds: nothing, text that is    *)
(* not JSON, the JSON text null, a record written by this script, or a     *)
(* record written before troops, trainingQueue and raidQueue existed (the  *)
(* "backward compatibility" of loadState), with or without lastUpdate.     *)

\* the saved game with a raid launched just before the tab was closed
RaidingGame(t) ==
    [SavedGame(t) EXCEPT !.troops = 0,
                         !.raidQueue = Some([startTime |-> t, endTime |-> t + RAID_TIME,
                                             reward |-> rollReward([res \in Resources |-> Grid(0)])])]

\* the members loadState supplies when the record lacks them
Backfilled == {"troops", "trainingQueue", "raidQueue", "lastUpdate"}

\* the record without the members of drop
Without(rec, drop) == [k \in DOMAIN rec \ drop |-> rec[k]]

StoredTexts ==
    {<<>>, BrokenText, NullText}
    \cup {stringify(Without(rec, drop)) :
              rec \in {SavedGame(Epoch), RaidingGame(Epoch),
                       [SavedGame(Epoch) EXCEPT !.lastUpdate = 0]},
              drop \in SUBSET Backfilled}

\* the page has not run its DOMContentLoaded handler yet
Unopened == Idle("open")

InitLoad ==
    /\ now \in {Epoch + k * TimeStep : k \in 0..2}
    /\ localStorage \in StoredTexts
    /\ state = Null
    /\ last = Unopened
    /\ started = 0
    /\ shadow = NoShadow

Open ==
    /\ last = Unopened
    /\ LET w == domContentLoaded(W, now)
       IN  /\ state' = w.st
           /\ localStorage' = w.ls
           /\ last' = [Idle("load") EXCEPT !.changed = TRUE, !.writes = w.writes,
                                           !.err = w.err]
    /\ UNCHANGED <<now, started, shadow>>

\* the first firing of the interval timer on the loaded state
FirstTick ==
    /\ last.op = "load"
    /\ ~last.err
    /\ now + TimeStep <= MaxNow
    /\ now' = now + TimeStep
    /\ Ran("tick", W, tick(W, now'))
    /\ UNCHANGED shadow

NextLoad ==
    \/ Open
    \/ FirstTick

SpecLoad == InitLoad /\ [][NextLoad]_vars

----------------------------------------------------------------------------
(* Accrual alone: a session with some building list, all slots free and no *)
(* command given, so that the list is fixed and no job completes.  The     *)
(* clock moves by one millisecond or by TimeStep, and the timer fires at   *)
(* some of the clock values.  shadow keeps the state the session started   *)
(* from (st0), the number of clock steps and the number of ticks that      *)
(* found time elapsed.                                                     *)

BuildingLists ==
    UNION {[1..n -> [type : Types, level : 1..MaxLevel]] : n \in 0..MaxBuildings}

InitAccrual ==
    /\ now = Epoch
    /\ \E buildings \in BuildingLists :
          state = [DEFAULT_STATE(Epoch) EXCEPT !.buildings = buildings]
    /\ localStorage = stringify(state)
    /\ last = Idle("load")
    /\ started = 0
    /\ shadow = [st0 |-> state, steps |-> 0, ticks |-> 0]

Pass ==
    /\ shadow.steps < AccrualSteps
    /\ \E d \in {1, TimeStep} : now' = now + d
    /\ last' = Idle("wait")
    /\ shadow' = [shadow EXCEPT !.steps = @ + 1]
    /\ UNCHANGED <<state, localStorage, started>>

TickAccrual ==
    /\ Ran("tick", W, tick(W, now))
    /\ shadow' = [shadow EXCEPT !.ticks = IF state' = state THEN @ ELSE @ + 1]
    /\ UNCHANGED now

NextAccrual ==
    \/ Pass
    \/ TickAccrual

SpecAccrual == InitAccrual /\ [][NextAccrual]_vars

----------------------------------------------------------------------------
(* Training with barracks: a session with some list of barracks (of any   *)
(* level) and farms (of the highest level), all slots free, in which       *)
(* troops are trained.  The clock is read every TickInterval milliseconds. *)

TrainingLists ==
    UNION {[1..n -> [type : {"barracks"}, level : 1..TrainLevel]
                       \cup {[type |-> "farm", level |-> TrainLevel]}] :
              n \in 0..TrainBuildings}

InitTraining ==
    /\ now = Epoch
    /\ \E buildings \in TrainingLists :
          state = [DEFAULT_STATE(Epoch) EXCEPT !.buildings = buildings]
    /\ localStorage = stringify(state)
    /\ last = Idle("load")
    /\ started = 0
    /\ shadow = NoShadow

Second ==
    /\ now + TickInterval <= Epoch + TrainSeconds * TickInterval
    /\ now' = now + TickInterval
    /\ last' = Idle("wait")
    /\ UNCHANGED <<state, localStorage, started, shadow>>

NextTraining ==
    \/ Second
    \/ Tick
    \/ TrainTroop

SpecTraining == InitTraining /\ [][NextTraining]_vars

----------------------------------------------------------------------------
(* A session opened over the saved game in which a raid is under way, so   *)
(* that with the jobs it starts itself all three slots can be busy.        *)

InitSlots ==
    /\ now = Epoch
    /\ LET w == domContentLoaded(Begin(Null, stringify(RaidingGame(Epoch))), Epoch)
       IN  /\ state = w.st
           /\ localStorage = w.ls
           /\ last = [Idle("load") EXCEPT !.changed = TRUE, !.writes = w.writes]
    /\ started = 0
    /\ shadow = NoShadow

SpecSlots == InitSlots /\ [][Next]_vars

----------------------------------------------------------------------------
(* The session with a timer that keeps firing and a clock that keeps       *)
(* moving, for what becomes of a started job.  The clock is followed up to *)
(* EndLive, so only jobs that end by EndLive are started.  shadow is the   *)
(* set of slots whose present job was pending when the page was reloaded.  *)

EndLive == Epoch + LiveSteps * LivePeriod

InitLive ==
    /\ now = Epoch
    /\ \E ls \in InitialStorage :
          LET w == domContentLoaded(Begin(Null, ls), Epoch)
          IN  /\ state = w.st
              /\ localStorage = w.ls
              /\ last = [Idle("load") EXCEPT !.changed = TRUE, !.writes = w.writes]
    /\ started = 0
    /\ shadow = {}

\* the job the step puts in slot, if any, ends by EndLive
EndsInTime(slot) ==
    /\ (slot = "trainingQueue" /\ state'.trainingQueue # Null)
          => GeqRat(EndLive, state'.trainingQueue[1].endTime)
    /\ (slot # "trainingQueue" /\ state'[slot] # Null)
          => EndLive >= state'[slot][1].endTime

AdvanceLive ==
    /\ now + LivePeriod <= EndLive
    /\ now' = now + LivePeriod
    /\ last' = Idle("wait")
    /\ UNCHANGED <<state, localStorage, started, shadow>>

\* a start command of the session: the job it starts has seen no reload
Start(slot) ==
    /\ started < LiveJobs
    /\ EndsInTime(slot)
    /\ shadow' = IF state' # state THEN shadow \ {slot} ELSE shadow
    /\ UNCHANGED now

BuildNewLive ==
    /\ \E type \in Types : Ran("buildNew", W, buildNew(W, type, now))
    /\ Start("queue")

UpgradeBuildingLive ==
    /\ \E index \in 0..MaxIndex :
          Ran("upgradeBuilding", W, upgradeBuilding(W, index, now))
    /\ Start("queue")

TrainTroopLive ==
    /\ Ran("trainTroop", W, trainTroop(W, now))
    /\ Start("trainingQueue")

RaidLive ==
    /\ \E rnd \in RandomDraws : Ran("raid", W, raid(W, rnd, now))
    /\ Start("raidQueue")

ReloadLive ==
    /\ Ran("load", W, domContentLoaded(Begin(Null, localStorage), now))
    /\ shadow' = shadow \cup {k \in Slots : state[k] # Null}
    /\ UNCHANGED now

\* the timer fires: the four steps of tick, one after the other
TickLive ==
    /\ \E w1 \in {updateResources(W, now)} :
       \E w2 \in {checkQueue(w1, now)} :
       \E w3 \in {checkTrainingQueue(w2, now)} :
       \E w4 \in {checkRaidQueue(w3, now)} : Ran("tick", W, w4)
    /\ UNCHANGED <<now, shadow>>

NextLive ==
    \/ AdvanceLive
    \/ TickLive
    \/ BuildNewLive
    \/ UpgradeBuildingLive
    \/ TrainTroopLive
    \/ RaidLive
    \/ ReloadLive

\* while the page is open the timer set by setInterval fires again and again,
\* and the clock moves on
SpecLive ==
    /\ InitLive
    /\ [][NextLive]_vars
    /\ WF_vars(AdvanceLive)
    /\ WF_vars(TickLive)

----------------------------------------------------------------------------
(* The roll of a raid's reward: a raid launched from the saved game, over  *)
(* every combination of the three draws.                                   *)

AllDraws == {Grid(n) : n \in 0..RandDen - 1} \cup {Top(u) : u \in 1..MaxUlps}

InitRoll ==
    /\ now = Epoch
    /\ LET w == domContentLoaded(Begin(Null, stringify(SavedGame(Epoch))), Epoch)
       IN  /\ state = w.st
           /\ localStorage = w.ls
           /\ last = [Idle("load") EXCEPT !.changed = TRUE, !.writes = w.writes]
    /\ started = 0
    /\ shadow = NoShadow

\* raid() calls Math.random() only when it launches a raid
RaidRoll ==
    /\ \E rnd \in IF state.raidQueue = Null /\ state.troops >= RAID_COST_TROOPS
                   THEN [Resources -> AllDraws]
                   ELSE {[res \in Resources |-> Grid(0)]} :
          Ran("raid", W, raid(W, rnd, now))
    /\ UNCHANGED <<now, shadow>>

NextRoll == RaidRoll

SpecRoll == InitRoll /\ [][NextRoll]_vars

----------------------------------------------------------------------------
(* The cost table: calculateCost applied to a building type and a level,   *)
(* as buildNew does for level 1 and upgradeBuilding for level + 1.  The    *)
(* shadow holds the arguments and, once computed, the cost at the level    *)
(* and at the next one.                                                    *)

InitCost ==
    /\ now = Epoch
    /\ state = DEFAULT_STATE(Epoch)
    /\ localStorage = <<>>
    /\ last = Idle("load")
    /\ started = 0
    /\ \E type \in Types, level \in 1..CostLevels :
          shadow = [type |-> type, level |-> level, costs |-> <<>>]

CalculateCost ==
    /\ shadow.costs = <<>>
    /\ shadow' = [shadow EXCEPT !.costs = << calculateCost(shadow.type, shadow.level),
                                             calculateCost(shadow.type, shadow.level + 1) >>]
    /\ last' = Idle("calculateCost")
    /\ UNCHANGED <<state, localStorage, now, started>>

NextCost == CalculateCost

SpecCost == InitCost /\ [][NextCost]_vars

----------------------------------------------------------------------------
(* A clock that is set back and forth: Date.now() is the system's wall     *)
(* clock, and two reads of it need not be in order.                        *)

Readings == {Epoch + k * TimeStep : k \in 0..SkewSteps}

InitSkew ==
    /\ now \in Readings
    /\ \E ls \in InitialStorage :
          LET w == domContentLoaded(Begin(Null, ls), now)
          IN  /\ state = w.st
              /\ localStorage = w.ls
              /\ last = [Idle("load") EXCEPT !.changed = TRUE, !.writes = w.writes]
    /\ started = 0
    /\ shadow = NoShadow

\* the clock is read at another value, later or earlier
ClockSet ==
    /\ \E t \in Readings \ {now} : now' = t
    /\ last' = Idle("wait")
    /\ UNCHANGED <<state, localStorage, started, shadow>>

BuildNewSkew == started < SkewJobs /\ BuildNew

UpgradeBuildingSkew == started < SkewJobs /\ UpgradeBuilding

TrainTroopSkew == started < SkewJobs /\ TrainTroop

RaidSkew == started < SkewJobs /\ Raid

NextSkew ==
    \/ ClockSet
    \/ Tick
    \/ BuildNewSkew
    \/ UpgradeBuildingSkew
    \/ TrainTroopSkew
    \/ RaidSkew
    \/ Reload

SpecSkew == InitSkew /\ [][NextSkew]_vars

----------------------------------------------------------------------------
(* The ledger of a game: a session begun from the default state, with the  *)
(* shadow counting the jobs of the game: training jobs started (trainings) *)
(* and completed (trained), raids launched (raids) and new-building jobs   *)
(* completed (built).  A job is started when a command fills its slot and  *)
(* completed when a handler clears its slot.  The session is explored      *)
(* freely from the start, or first played as History tells (shadow.at is   *)
(* the position in History, 0 in free play) and explored from there, up to *)
(* the clock value shadow.until.                                           *)

\* 95 s of play that lead from the default state to SavedGame: the handlers
\* run, and the milliseconds since the start at which they run
History ==
    << [op |-> "buildNew", type |-> "woodcutter", at |-> 0],
       [op |-> "tick", at |-> 5000],
       [op |-> "buildNew", type |-> "quarry", at |-> 5000],
       [op |-> "tick", at |-> 10000],
       [op |-> "buildNew", type |-> "farm", at |-> 10000],
       [op |-> "tick", at |-> 15000],
       [op |-> "tick", at |-> 40000],
       [op |-> "trainTroop", at |-> 40000],
       [op |-> "tick", at |-> 50000],
       [op |-> "trainTroop", at |-> 50000],
       [op |-> "tick", at |-> 60000],
       [op |-> "trainTroop", at |-> 60000],
       [op |-> "tick", at |-> 70000],
       [op |-> "trainTroop", at |-> 70000],
       [op |-> "tick", at |-> 80000],
       [op |-> "trainTroop", at |-> 80000],
       [op |-> "tick", at |-> 90000],
       [op |-> "tick", at |-> 95000] >>

One(cond) == IF cond THEN 1 ELSE 0

Filled(s0, s1, slot) == s0[slot] = Null /\ s1[slot] # Null

Cleared(s0, s1, slot) == s0[slot] # Null /\ s1[slot] = Null

\* the ledger after a handler took the state from s0 to s1
Counted(ledger, s0, s1) ==
    [ledger EXCEPT
        !.trainings = @ + One(Filled(s0, s1, "trainingQueue")),
        !.trained = @ + One(Cleared(s0, s1, "trainingQueue")),
        !.raids = @ + One(Filled(s0, s1, "raidQueue")),
        !.built = @ + One(Cleared(s0, s1, "queue") /\ s0.queue[1].targetIndex = Null)]

InitLedger ==
    /\ now = Epoch
    /\ LET w == domContentLoaded(Begin(Null, <<>>), Epoch)
       IN  /\ state = w.st
           /\ localStorage = w.ls
           /\ last = [Idle("load") EXCEPT !.changed = TRUE, !.writes = w.writes]
    /\ started = 0
    /\ \E at \in {0, 1} :
          shadow = [trainings |-> 0, trained |-> 0, raids |-> 0, built |-> 0,
                    at |-> at, until |-> MaxNow]

\* the next handler of History runs, at its time
Replay ==
    /\ shadow.at \in DOMAIN History
    /\ LET c == History[shadow.at]
           t == Epoch + c.at
           w0 == Begin(state, localStorage)
           w1 == IF c.op = "tick" THEN tick(w0, t)
                 ELSE IF c.op = "buildNew" THEN buildNew(w0, c.type, t)
                 ELSE trainTroop(w0, t)
           end == shadow.at = Len(History)
       IN  /\ now' = t
           /\ state' = w1.st
           /\ localStorage' = w1.ls
           /\ last' = [op |-> c.op, changed |-> (w1.st # state), writes |-> w1.writes,
                       err |-> w1.err, done |-> Done(state, w1.st)]
           /\ shadow' = [Counted(shadow, state, w1.st) EXCEPT
                            !.at = IF end THEN 0 ELSE @ + 1,
                            !.until = IF end THEN t + Horizon * TimeStep ELSE @]
    /\ UNCHANGED started

AdvanceLedger ==
    /\ shadow.at = 0
    /\ now + TimeStep <= shadow.until
    /\ now' = now + TimeStep
    /\ last' = Idle("wait")
    /\ UNCHANGED <<state, localStorage, started, shadow>>

\* a handler runs from the state of the session and gives w1
Handled(op, w1) ==
    /\ shadow.at = 0
    /\ Ran(op, W, w1)
    /\ shadow' = Counted(shadow, state, w1.st)
    /\ UNCHANGED now

TickLedger == Handled("tick", tick(W, now))

BuildNewLedger ==
    /\ started < LedgerJobs
    /\ \E type \in Types : Handled("buildNew", buildNew(W, type, now))

UpgradeBuildingLedger ==
    /\ started < LedgerJobs
    /\ \E index \in 0..MaxIndex : Handled("upgradeBuilding", upgradeBuilding(W, index, now))

TrainTroopLedger ==
    /\ started < LedgerJobs
    /\ Handled("trainTroop", trainTroop(W, now))

RaidLedger ==
    /\ started < LedgerJobs
    /\ \E rnd \in RandomDraws : Handled("raid", raid(W, rnd, now))

ReloadLedger == Handled("load", domContentLoaded(Begin(Null, localStorage), now))

NextLedger ==
    \/ Replay
    \/ AdvanceLedger
    \/ TickLedger
    \/ BuildNewLedger
    \/ UpgradeBuildingLedger
    \/ TrainTroopLedger
    \/ RaidLedger
    \/ ReloadLedger

SpecLedger == InitLedger /\ [][NextLedger]_vars

----------------------------------------------------------------------------
(* Properties.                                                             *)

\* a start command as a function of the handler's view, for every input the
\* command can be given in the current state
Indices == 0..MaxIndex

Pending(slot) == slot # Null

\* C1: every slot holds at most one job, and a start command on an occupied
\* slot (buildNew or upgradeBuilding with queue set, trainTroop with
\* trainingQueue set, raid with raidQueue set) returns with the state object
\* and the stored record as they were, and writes nothing.
C1_BusySlotRefuses ==
    /\ \A k \in Slots : Len(state[k]) <= 1
    /\ Pending(state.queue) =>
          /\ \A type \in Types : buildNew(W, type, now) = W
          /\ \A index \in Indices : upgradeBuilding(W, index, now) = W
    /\ Pending(state.trainingQueue) => trainTroop(W, now) = W
    /\ Pending(state.raidQueue) => \A rnd \in RandomDraws : raid(W, rnd, now) = W

\* a buildNew was refused while a construction job occupied the slot
C1_Witness ==
    /\ last.op = "buildNew"
    /\ ~last.changed
    /\ Pending(state.queue)

\* what C2 compares: resources, buildings, troops and the three queues
Core(s) == [resources |-> s.resources, buildings |-> s.buildings,
            troops |-> s.troops, queue |-> s.queue,
            trainingQueue |-> s.trainingQueue, raidQueue |-> s.raidQueue]

\* C2: two runs from the same state with the same commands at the same times
\* that both tick at the current time have equal resources, buildings, troops
\* and queues, whichever ticks each ran or missed before.
C2_CadenceIndependent ==
    (shadow.tickedA /\ shadow.tickedB) => Core(state) = Core(shadow.st)

\* some resource kind is below the cost
Short(s, cost) == \E res \in DOMAIN cost : s.resources[res] < cost[res] * Unit

\* C3: buildNew, upgradeBuilding and trainTroop called when at least one
\* resource kind is below the cost change nothing (state object and stored
\* record as they were, nothing written) and raise no error.
C3_UnaffordableRefused ==
    /\ \A type \in Types :
          Short(state, calculateCost(type, 1)) => buildNew(W, type, now) = W
    /\ \A index \in Indices :
          (/\ index + 1 \in DOMAIN state.buildings
           /\ Short(state, calculateCost(state.buildings[index + 1].type,
                                         state.buildings[index + 1].level + 1)))
          => upgradeBuilding(W, index, now) = W
    /\ Short(state, TRAIN_COST) => trainTroop(W, now) = W

\* a trainTroop was refused with a free slot, wood enough and stone short
C3_Witness ==
    /\ last.op = "trainTroop"
    /\ ~last.changed
    /\ ~Pending(state.trainingQueue)
    /\ state.resources.wood >= TRAIN_COST.wood * Unit
    /\ state.resources.stone < TRAIN_COST.stone * Unit

\* C4: troops is a natural number in every reachable state; raid with fewer
\* than 5 troops changes nothing; a raid that starts takes exactly 5 troops at
\* launch, and the completion of a raid takes none.
C4_TroopFloor ==
    /\ state.troops \in Nat
    /\ \A rnd \in RandomDraws :
          LET w == raid(W, rnd, now)
          IN  /\ state.troops < 5 => w = W
              /\ w.st.raidQueue # state.raidQueue
                    => w.st.troops = state.troops - 5
              /\ (state.troops >= 5 /\ ~Pending(state.raidQueue))
                    => Pending(w.st.raidQueue)
    /\ checkRaidQueue(W, now).st.troops = state.troops

\* a raid was launched with exactly five troops
C4_Witness ==
    /\ last.op = "raid"
    /\ last.changed
    /\ state.troops = 0
    /\ Pending(state.raidQueue)

\* C5: wood, stone and food are each >= 0 in every reachable state.
C5_ResourcesNonNegative == \A res \in Resources : state.resources[res] >= 0

\* a training was paid for that left less than 5 stone
C5_Witness ==
    /\ last.op = "trainTroop"
    /\ last.changed
    /\ state.resources.stone < 5 * Unit

\* C6: for each queue, its check run twice at the same time gives what one
\* run gives: the second run changes neither the state object nor the stored
\* record and writes nothing.
C6_CheckIdempotent ==
    /\ LET w == checkQueue(W, now) IN checkQueue(w, now) = w
    /\ LET w == checkTrainingQueue(W, now) IN checkTrainingQueue(w, now) = w
    /\ LET w == checkRaidQueue(W, now) IN checkRaidQueue(w, now) = w

\* a construction job is due and not yet reconciled
C6_Witness ==
    /\ Pending(state.queue)
    /\ now >= state.queue[1].endTime

\* C7: from launch until the raid job is cleared the job (its reward
\* included) never changes, and the step that clears it is a tick that adds
\* to each resource exactly the stored reward, on top of that tick's accrual.
C7_RewardFixed ==
    [][Pending(state.raidQueue) =>
         \/ state'.raidQueue = state.raidQueue
         \/ /\ state'.raidQueue = Null
            /\ last'.op = "tick"
            /\ \A res \in Resources :
                  state'.resources[res] =
                      updateResources(W, now).st.resources[res]
                      + state.raidQueue[1].reward[res] * Unit]_vars

\* a tick completed a raid
C7_Witness == "raidQueue" \in last.done

\* C8: a job that is not due is left alone: while now < endTime no handler
\* changes the job, clears its slot or applies its completion effect (no
\* building appended or upgraded, no troop added, no reward paid).
C8_NoEarlyCompletion ==
    [][/\ (Pending(state.queue) /\ now' < state.queue[1].endTime) =>
              /\ state'.queue = state.queue
              /\ state'.buildings = state.buildings
       /\ (Pending(state.trainingQueue)
             /\ ~GeqRat(now', state.trainingQueue[1].endTime)) =>
              /\ state'.trainingQueue = state.trainingQueue
              /\ state'.troops <= state.troops
       /\ (Pending(state.raidQueue) /\ now' < state.raidQueue[1].endTime) =>
              /\ state'.raidQueue = state.raidQueue
              /\ \A res \in Resources :
                    state'.resources[res] <= updateResources(W, now').st.resources[res]
      ]_vars

\* a tick completed a construction job while a training job, started earlier,
\* was not yet due
C8_Witness ==
    /\ last.op = "tick"
    /\ "queue" \in last.done
    /\ Pending(state.trainingQueue)
    /\ state.trainingQueue[1].startTime < now
    /\ ~GeqRat(now, state.trainingQueue[1].endTime)

\* C9: when a command or a tick that changed the state returns, a record is
\* stored, and whenever a record is stored after a handler, loadState on it
\* gives the state object back: resources, buildings, the three queues, troops
\* and lastUpdate.
C9_SavedAfterChange ==
    [][/\ (last'.op \in Commands \cup {"tick"} /\ state' # state)
             => localStorage' # <<>>
       /\ localStorage' # <<>>
             => loadState(Begin(Null, localStorage'), now').st = state']_vars

\* a tick changed the state
C9_Witness ==
    /\ last.op = "tick"
    /\ last.changed

\* what a start command shows in the record rec it stored over the state s it
\* started from: the cost gone, the job in its slot
CostGone(op, s, rec) ==
    CASE op \in {"buildNew", "upgradeBuilding"} ->
            /\ Pending(rec.queue)
            /\ \A res \in Resources :
                  rec.resources[res] = s.resources[res]
                      - calculateCost(rec.queue[1].type, rec.queue[1].level)[res] * Unit
      [] op = "trainTroop" ->
            \A res \in Resources :
                rec.resources[res] = s.resources[res] - TRAIN_COST[res] * Unit
      [] op = "raid" -> rec.troops = s.troops - RAID_COST_TROOPS

JobPlaced(op, s, rec) ==
    CASE op \in {"buildNew", "upgradeBuilding"} ->
            ~Pending(s.queue) /\ Pending(rec.queue)
      [] op = "trainTroop" -> ~Pending(s.trainingQueue) /\ Pending(rec.trainingQueue)
      [] op = "raid" -> ~Pending(s.raidQueue) /\ Pending(rec.raidQueue)

\* C10: a start command writes the record at most once, and a record it
\* writes shows both the cost deducted and the job in its slot: never the
\* deduction without the job, nor the job without the deduction.
C10_DeductAndEnqueueTogether ==
    [][last'.op \in Commands =>
          \/ localStorage' = localStorage /\ last'.writes = 0
          \/ /\ last'.writes = 1
             /\ CostGone(last'.op, state, parse(localStorage'))
             /\ JobPlaced(last'.op, state, parse(localStorage'))]_vars

\* an upgrade was started and stored
C10_Witness ==
    /\ last.op = "upgradeBuilding"
    /\ last.changed
    /\ last.writes = 1

\* a building stands at the JS index
Built(s, index) == index + 1 \in DOMAIN s.buildings

\* C11: a start command called when its preconditions do not hold (slot busy,
\* a resource kind below the cost, fewer than 5 troops, or upgradeBuilding for
\* an index at which the list has no building) ends without an error and
\* leaves the state object and the stored record as they were.
C11_InvalidCommandsAreNoOps ==
    /\ \A type \in Types :
          (Pending(state.queue) \/ Short(state, calculateCost(type, 1)))
          => buildNew(W, type, now) = W
    /\ \A index \in Indices :
          (\/ Pending(state.queue)
           \/ ~Built(state, index)
           \/ Short(state, calculateCost(state.buildings[index + 1].type,
                                         state.buildings[index + 1].level + 1)))
          => upgradeBuilding(W, index, now) = W
    /\ (Pending(state.trainingQueue) \/ Short(state, TRAIN_COST))
          => trainTroop(W, now) = W
    /\ (Pending(state.raidQueue) \/ state.troops < RAID_COST_TROOPS)
          => \A rnd \in RandomDraws : raid(W, rnd, now) = W

\* C12: loadState ends without an error for every stored text; for no text
\* or text that does not parse the state is the default (50/50/50, no
\* buildings, no queues, 0 troops); for a parsed record every member it has is
\* kept, and troops, trainingQueue, raidQueue, lastUpdate that it lacks become
\* 0, null, null and now.
C12_LoadAlwaysUsable ==
    last = Unopened =>
        LET data == localStorage
            w == loadState(W, now)
        IN  /\ ~w.err
            /\ (data = <<>> \/ parseThrows(data)) => w.st = DEFAULT_STATE(now)
            /\ (data # <<>> /\ ~parseThrows(data)) =>
                  LET rec == parse(data)
                  IN  /\ DOMAIN w.st = DOMAIN rec \cup Backfilled
                      /\ \A k \in DOMAIN rec : w.st[k] = rec[k]
                      /\ "troops" \notin DOMAIN rec => w.st.troops = 0
                      /\ "trainingQueue" \notin DOMAIN rec => w.st.trainingQueue = Null
                      /\ "raidQueue" \notin DOMAIN rec => w.st.raidQueue = Null
                      /\ "lastUpdate" \notin DOMAIN rec => w.st.lastUpdate = now

\* baseRate * level * deltaMs / 1000 summed over the buildings that produce
\* res, in 1/Unit
RECURSIVE Produced(_, _, _)
Produced(buildings, res, deltaMs) ==
    IF buildings = <<>> THEN 0
    ELSE (IF BUILDING_TYPES[Head(buildings).type].resource = res
          THEN BUILDING_TYPES[Head(buildings).type].baseRate * Head(buildings).level
                    * deltaMs * (Unit \div (RateDen * MsPerSecond))
          ELSE 0)
         + Produced(Tail(buildings), res, deltaMs)

Whole(wood, stone, food) == [wood |-> wood * Unit, stone |-> stone * Unit, food |-> food * Unit]

\* C14: a buildNew that starts takes exactly calculateCost(type, 1) of each
\* resource and puts in the slot a job of that type with no target index,
\* level 1, startTime = now and endTime = startTime + calculateTime(type, 1);
\* checkQueue at endTime appends the one building {type, level 1} at the end of
\* the list and clears the slot, and so does the tick that completes the job.
\* From 50/50/50, buildNew('woodcutter') leaves 50/30/40 and a 5000 ms job.
C14_BuildNewScenario ==
    [][/\ (last'.op = "buildNew" /\ state' # state) =>
             /\ Pending(state'.queue)
             /\ LET job == state'.queue[1]
                    done == checkQueue(Begin(state', localStorage'), job.endTime).st
                IN  /\ job.type \in Types
                    /\ job.targetIndex = Null
                    /\ job.level = 1
                    /\ job.startTime = now
                    /\ job.endTime = job.startTime + calculateTime(job.type, 1)
                    /\ \A res \in Resources :
                          state'.resources[res] =
                              state.resources[res] - calculateCost(job.type, 1)[res] * Unit
                    /\ state' = [state EXCEPT !.resources = state'.resources,
                                              !.queue = state'.queue]
                    /\ done.buildings =
                          Append(state.buildings, [type |-> job.type, level |-> 1])
                    /\ done.queue = Null
                    /\ (job.type = "woodcutter" /\ state.resources = Whole(50, 50, 50)) =>
                          /\ state'.resources = Whole(50, 30, 40)
                          /\ job.endTime - job.startTime = 5000
       /\ (Pending(state.queue) /\ state'.queue = Null /\ state.queue[1].targetIndex = Null) =>
             /\ last'.op = "tick"
             /\ state'.buildings =
                   Append(state.buildings, [type |-> state.queue[1].type, level |-> 1])
      ]_vars

\* the woodcutter ordered from 50/50/50 has been built by a tick
C14_Witness ==
    /\ last.op = "tick"
    /\ "queue" \in last.done
    /\ state.buildings = <<[type |-> "woodcutter", level |-> 1]>>
    /\ state.resources = Whole(50, 30, 40)

\* the sum of the levels of the barracks of the list
BarracksLevels(buildings) ==
    LET at == {i \in DOMAIN buildings : buildings[i].type = "barracks"}
        RECURSIVE Sum(_)
        Sum(I) == IF I = {} THEN 0
                  ELSE LET i == CHOOSE j \in I : TRUE
                       IN  buildings[i].level + Sum(I \ {i})
    IN  Sum(at)

\* the fraction r is max(1000, 5000 / (1 + B / 2)) milliseconds
IsTrainingTime(r, B) ==
    IF 2 * 5000 >= 1000 * (2 + B)
    THEN r.num * (2 + B) = 2 * 5000 * r.den
    ELSE r.num = 1000 * r.den

\* C15: a trainTroop that starts takes exactly 15 wood, 15 stone and 10 food
\* and puts in the slot a job with startTime = now and endTime - startTime =
\* max(1000, 5000 / (1 + 0.5 * B)), B the sum of the levels of the barracks in
\* the list at the call: 5000 for B = 0, 2500 for B = 2, never less than 1000;
\* the step that clears the job is a tick, and it adds exactly 1 to troops.
C15_TrainingDuration ==
    [][/\ (last'.op = "trainTroop" /\ state' # state) =>
             /\ state'.resources = [res \in Resources |->
                    state.resources[res] - Whole(15, 15, 10)[res]]
             /\ Pending(state'.trainingQueue)
             /\ state' = [state EXCEPT !.resources = state'.resources,
                                       !.trainingQueue = state'.trainingQueue]
             /\ LET job == state'.trainingQueue[1]
                    B == BarracksLevels(state.buildings)
                    length == Rat(job.endTime.num - job.startTime * job.endTime.den,
                                  job.endTime.den)
                IN  /\ job.startTime = now
                    /\ IsTrainingTime(length, B)
                    /\ B = 0 => job.endTime = Rat(now + 5000, 1)
                    /\ B = 2 => job.endTime = Rat(now + 2500, 1)
                    /\ length.num >= 1000 * length.den
       /\ (Pending(state.trainingQueue) /\ state'.trainingQueue = Null) =>
             /\ last'.op = "tick"
             /\ state'.troops = state.troops + 1
      ]_vars

\* a second training was started, with barracks levels summing to more than
\* 8, after the first one had given its troop
C15_Witness ==
    /\ last.op = "trainTroop"
    /\ last.changed
    /\ state.troops = 1
    /\ BarracksLevels(state.buildings) > 8
    /\ state.trainingQueue[1].endTime = Rat(now + 1000, 1)

\* the view W with the slots other than keep emptied
Alone(keep) ==
    Begin([k \in DOMAIN state |->
              IF k \in Slots \ {keep} THEN Null ELSE state[k]], localStorage)

\* the command made of the view v what it made of the view w, the slots
\* other than slot set aside: the same refusal or the same cost and job
SameOutcome(slot, v, v1, w, w1) ==
    /\ (v1.st = v.st) = (w1.st = w.st)
    /\ v1.writes = w1.writes
    /\ v1.err = w1.err
    /\ \A k \in DOMAIN state \ (Slots \ {slot}) : v1.st[k] = w1.st[k]

\* the handler left the slots other than slot as they were
OthersKept(slot, w1) == \A k \in Slots \ {slot} : w1.st[k] = state[k]

\* C16: a start command does what it would do were the slots of the other two
\* kinds free (their being busy never has it refused), and a start command
\* and a queue check leave the slots of the other two kinds as they were.
C16_SlotsIndependent ==
    /\ \A type \in Types :
          LET w1 == buildNew(W, type, now)
          IN  /\ SameOutcome("queue", Alone("queue"),
                             buildNew(Alone("queue"), type, now), W, w1)
              /\ OthersKept("queue", w1)
    /\ \A index \in Indices :
          LET w1 == upgradeBuilding(W, index, now)
          IN  /\ SameOutcome("queue", Alone("queue"),
                             upgradeBuilding(Alone("queue"), index, now), W, w1)
              /\ OthersKept("queue", w1)
    /\ LET w1 == trainTroop(W, now)
       IN  /\ SameOutcome("trainingQueue", Alone("trainingQueue"),
                          trainTroop(Alone("trainingQueue"), now), W, w1)
           /\ OthersKept("trainingQueue", w1)
    /\ \A rnd \in RandomDraws :
          LET w1 == raid(W, rnd, now)
          IN  /\ SameOutcome("raidQueue", Alone("raidQueue"),
                             raid(Alone("raidQueue"), rnd, now), W, w1)
              /\ OthersKept("raidQueue", w1)
    /\ OthersKept("queue", checkQueue(W, now))
    /\ OthersKept("trainingQueue", checkTrainingQueue(W, now))
    /\ OthersKept("raidQueue", checkRaidQueue(W, now))

\* a training was started while a construction and a raid were under way:
\* the three slots are busy
C16_Witness ==
    /\ last.op = "trainTroop"
    /\ last.changed
    /\ \A k \in Slots : Pending(state[k])

\* C17: with the timer firing again and again and the clock moving on, every
\* job in a slot is in the end completed by a tick, which clears its slot,
\* whether or not the page was reloaded while the job was pending.
C17_JobsComplete ==
    \A k \in Slots : Pending(state[k]) ~> (last.op = "tick" /\ k \in last.done)

\* a tick completed a job that was pending when the page was reloaded
C17_Witness ==
    /\ last.op = "tick"
    /\ last.done \cap shadow # {}

\* the reward a tick at now pays: that of the raid job if it is due
RewardDue(res) ==
    IF Pending(state.raidQueue) /\ now >= state.raidQueue[1].endTime
    THEN state.raidQueue[1].reward[res] * Unit
    ELSE 0

\* C18: a tick accrues first and reconciles after: what it adds to each
\* resource is the production, over the whole time since lastUpdate, of the
\* building list and levels as they were before the tick (plus the reward of
\* a raid it completes), so that a building the tick appends or upgrades has
\* produced nothing at its new level when the tick returns; the construction,
\* training and raid jobs that are due are completed by the same tick.
C18_AccrualBeforeCompletion ==
    [][last'.op = "tick" =>
          /\ \A res \in Resources :
                state'.resources[res] =
                    state.resources[res]
                    + Produced(state.buildings, res, now - state.lastUpdate)
                    + RewardDue(res)
          /\ state'.buildings = checkQueue(W, now).st.buildings
          /\ state'.troops = checkTrainingQueue(W, now).st.troops
          /\ \A k \in Slots :
                (Pending(state[k])
                   /\ GeqRat(now, IF k = "trainingQueue" THEN state[k][1].endTime
                                  ELSE Rat(state[k][1].endTime, 1)))
                => state'[k] = Null
      ]_vars

\* a tick, later than the job's end, has appended a quarry ordered from
\* 50/50/50, and stone is still 50
C18_Witness ==
    /\ last.op = "tick"
    /\ "queue" \in last.done
    /\ state.buildings = <<[type |-> "quarry", level |-> 1]>>
    /\ state.resources = Whole(30, 50, 40)
    /\ now > Epoch + calculateTime("quarry", 1)

\* C19: in every step the building list keeps its buildings at their index
\* with their type and a level that does not go down, every level is a whole
\* number >= 1, and the list changes only in a tick that completes a due
\* construction job, by one building appended or by the level of one building
\* changed.
C19_BuildingsOnlyGrow ==
    [][LET old == state.buildings
           new == state'.buildings
       IN  /\ Len(new) >= Len(old)
           /\ \A i \in DOMAIN old :
                 /\ new[i].type = old[i].type
                 /\ new[i].level >= old[i].level
           /\ \A i \in DOMAIN new : new[i].level \in Nat \ {0}
           /\ new # old =>
                 /\ last'.op = "tick"
                 /\ Pending(state.queue)
                 /\ now >= state.queue[1].endTime
                 /\ state'.queue = Null
                 /\ \/ /\ Len(new) = Len(old) + 1
                       /\ new = Append(old, new[Len(new)])
                       /\ new[Len(new)].type \in Types
                    \/ /\ Len(new) = Len(old)
                       /\ Cardinality({i \in DOMAIN old : new[i] # old[i]}) = 1
      ]_vars

\* a tick completed the upgrade of a building, next to two it left alone
C19_Witness ==
    /\ last.op = "tick"
    /\ "queue" \in last.done
    /\ Len(state.buildings) = 3
    /\ Cardinality({i \in DOMAIN state.buildings : state.buildings[i].level = 2}) = 1

\* C20: the reward of a launched raid is, for each resource kind, a whole
\* number within the range of the kind: 20..40 wood, 20..40 stone, 10..30
\* food, whatever Math.random() returned.
C20_RewardInRange ==
    Pending(state.raidQueue) =>
        LET reward == state.raidQueue[1].reward
        IN  /\ reward.wood \in 20..40
            /\ reward.stone \in 20..40
            /\ reward.food \in 10..30

\* the cost at the level and at the next level have been computed
Costed == shadow.costs # <<>>

\* Math.ceil(cost * 1.5)
CeilOfNext(cost) == CeilDiv(cost * COST_MULTIPLIER.num, COST_MULTIPLIER.den)

\* C21 as stated: the cost at level 1 is the base cost, and the cost at level
\* L + 1 is, for each resource, the ceiling of 1.5 times the cost at level L.
C21_CostRecurrence ==
    Costed =>
        /\ calculateCost(shadow.type, 1) = BUILDING_TYPES[shadow.type].baseCost
        /\ \A res \in Resources :
              shadow.costs[2][res] = CeilOfNext(shadow.costs[1][res])

\* C21 amended: the cost at level 1 is the base cost; the cost at level L is,
\* for each resource, the least whole number not below baseCost * 1.5^(L-1);
\* and the cost at level L + 1 is the ceiling of 1.5 times the cost at level
\* L, or one less.
C21_CostGrowth ==
    Costed =>
        /\ calculateCost(shadow.type, 1) = BUILDING_TYPES[shadow.type].baseCost
        /\ \A res \in Resources :
              LET base == BUILDING_TYPES[shadow.type].baseCost[res]
                  cost == shadow.costs[1][res]
                  next == shadow.costs[2][res]
                  num == Pow(COST_MULTIPLIER.num, shadow.level - 1)
                  den == Pow(COST_MULTIPLIER.den, shadow.level - 1)
              IN  /\ (cost - 1) * den < base * num
                  /\ base * num <= cost * den
                  /\ CeilOfNext(cost) - next \in {0, 1}

\* the cost of a woodcutter at level 4 has been computed from level 3: 34 food,
\* one less than the ceiling of 1.5 times the 23 food of level 3
C21_Witness ==
    /\ Costed
    /\ shadow.type = "woodcutter"
    /\ shadow.level = 3
    /\ shadow.costs[1].food = 23
    /\ shadow.costs[2].food = 34
    /\ CeilOfNext(shadow.costs[1].food) = 35

\* C22: updateResources called with now <= lastUpdate changes nothing and
\* stores nothing; called with now > lastUpdate it sets lastUpdate to now.
\* Hence, also when the clock is set back, no tick and no command lowers
\* lastUpdate, no tick lowers a resource, and the accrual that follows
\* loadState lowers neither.
C22_AccrualKeepsOrder ==
    [][/\ LET w == updateResources(W, now')
          IN  /\ now' <= state.lastUpdate => w = W
              /\ now' > state.lastUpdate => w.st.lastUpdate = now'
              /\ w.st.lastUpdate >= state.lastUpdate
              /\ \A res \in Resources : w.st.resources[res] >= state.resources[res]
       /\ last'.op # "load" => state'.lastUpdate >= state.lastUpdate
       /\ last'.op = "tick" =>
              \A res \in Resources : state'.resources[res] >= state.resources[res]
       /\ last'.op = "load" =>
              LET loaded == loadState(Begin(Null, localStorage), now).st
              IN  /\ state'.lastUpdate >= loaded.lastUpdate
                  /\ \A res \in Resources :
                        state'.resources[res] >= loaded.resources[res]
      ]_vars

\* the timer fired while the clock read less than lastUpdate, with producing
\* buildings in the list, and the tick changed and stored nothing
C22_Witness ==
    /\ last.op = "tick"
    /\ now < state.lastUpdate
    /\ \E i \in DOMAIN state.buildings :
          BUILDING_TYPES[state.buildings[i].type].baseRate > 0
    /\ ~last.changed
    /\ last.writes = 0

\* the construction slot of s holds an upgrade job
Upgrading(s) == Pending(s.queue) /\ s.queue[1].targetIndex # Null

\* C23: while an upgrade job is pending its target index addresses a building
\* of the list, of the job's type and one level below the job's level; and the
\* step that completes the job raises the level of that building by one and
\* leaves every other building, and the length of the list, as they were.
C23_UpgradeTargetsBuilding ==
    [][Upgrading(state) =>
          LET job == state.queue[1]
              target == job.targetIndex[1] + 1
          IN  /\ target \in DOMAIN state.buildings
              /\ state.buildings[target].type = job.type
              /\ job.level = state.buildings[target].level + 1
              /\ "queue" \in last'.done =>
                    state'.buildings =
                       [state.buildings EXCEPT ![target].level = @ + 1]
              /\ "queue" \notin last'.done => state'.buildings = state.buildings
      ]_vars

\* a tick completed the upgrade of the second of three buildings, some time
\* after the command, and the other two are at level 1
C23_Witness ==
    /\ last.op = "tick"
    /\ "queue" \in last.done
    /\ Len(state.buildings) = 3
    /\ state.buildings[2].level = 2
    /\ state.buildings[1].level = 1
    /\ state.buildings[3].level = 1

\* C24: in every state of a game begun from the default state, troops is the
\* number of training jobs completed less 5 for each raid launched; every
\* training job started has been completed once or is the one in the slot; and
\* the building list has one building for each new-building job completed.
C24_EffectsOnce ==
    /\ state.troops = shadow.trained - RAID_COST_TROOPS * shadow.raids
    /\ shadow.trained + One(Pending(state.trainingQueue)) = shadow.trainings
    /\ Len(state.buildings) = shadow.built

\* after the three buildings and five troops of History a raid was launched
\* and a troop trained: six trained, five sent, one at home
C24_Witness ==
    /\ shadow.built = 3
    /\ shadow.raids = 1
    /\ shadow.trained = 6
    /\ state.troops = 1
    /\ last.op = "tick"
    /\ "trainingQueue" \in last.done

====
